---- MODULE Spec2Model ----
(***************************************************************************)
(* Model of script.py: the New Relic NerdGraph export pipeline.            *)
(*                                                                         *)
(* main() runs three generators in sequence.  The first fetches policies   *)
(* and NRQL conditions page by page, joins them (Stage A), fetches the     *)
(* workflows, joins them with the Stage A rows (Stage B) and writes        *)
(* workflows_with_alert_policies.csv.  The second fetches channels and     *)
(* destinations, joins them (Stage C) and writes                           *)
(* channels_and_destinations.csv.  The third reads both files back, joins  *)
(* them (Stage D) and writes workflows_with_channels.csv.                  *)
(*                                                                         *)
(* Text is modelled as a sequence of one-character strings, so joining,    *)
(* splitting, formatting, CSV quoting and CSV parsing are computed         *)
(* character by character as Python computes them.                         *)
(***************************************************************************)
EXTENDS Naturals, Sequences, FiniteSets, TLC

VARIABLES
    pc,               \* position of main() in the pipeline
    srv,              \* what the NerdGraph server holds (pages per search)
    cursor,           \* the local variable cursor of the running fetch loop
    requests,         \* every fetch_data call made so far: <<kind, cursor>>
    policies,         \* accumulator of the policies loop
    nrql_conditions,  \* accumulator of the NRQL conditions loop
    alert_policies,   \* Stage A rows (get_alert_policies_and_conditions)
    workflows,        \* accumulator of get_workflows
    processed_data,   \* Stage B rows (process_workflows)
    channels,         \* accumulator of the channels loop
    destinations,     \* result of the single destinations request
    channel_rows,     \* Stage C rows (map_channels_to_destinations)
    files,            \* the three CSV files on disk
    workflows_data,   \* rows read back from workflows_with_alert_policies.csv
    channels_data,    \* rows read back from channels_and_destinations.csv
    mapped_data,      \* Stage D rows (map_workflows_with_channels)
    events            \* history: the externally visible steps of this run

vars == <<pc, srv, cursor, requests, policies, nrql_conditions, alert_policies,
          workflows, processed_data, channels, destinations, channel_rows,
          files, workflows_data, channels_data, mapped_data, events>>

(***************************************************************************)
(* Bounds of the model.                                                    *)
(***************************************************************************)
MaxPages == 2        \* pages a paginated search holds
MaxTerms == 2        \* terms of one NRQL condition
MaxValues == 2       \* values of one workflow predicate
MaxProps == 2        \* properties of one destination
MaxConfigs == 2      \* destination configurations of one workflow

(***************************************************************************)
(* Text.                                                                   *)
(***************************************************************************)
TextOf(s) ==
    CASE s = "workflow_name" ->
           <<"w","o","r","k","f","l","o","w","_","n","a","m","e">>
      [] s = "workflow_id" ->
           <<"w","o","r","k","f","l","o","w","_","i","d">>
      [] s = "destination_channel_ids" ->
           <<"d","e","s","t","i","n","a","t","i","o","n","_","c","h","a","n","n","e","l","_","i","d","s">>
      [] s = "alert_policy_name" ->
           <<"a","l","e","r","t","_","p","o","l","i","c","y","_","n","a","m","e">>
      [] s = "alert_policy_id" ->
           <<"a","l","e","r","t","_","p","o","l","i","c","y","_","i","d">>
      [] s = "nrql_condition_id" ->
           <<"n","r","q","l","_","c","o","n","d","i","t","i","o","n","_","i","d">>
      [] s = "alert_condition_name" ->
           <<"a","l","e","r","t","_","c","o","n","d","i","t","i","o","n","_","n","a","m","e">>
      [] s = "nrql_query" ->
           <<"n","r","q","l","_","q","u","e","r","y">>
      [] s = "nrql_condition" ->
           <<"n","r","q","l","_","c","o","n","d","i","t","i","o","n">>
      [] s = "attribute.accumulations.policyName" ->
           <<"a","t","t","r","i","b","u","t","e",".","a","c","c","u","m","u","l","a","t","i","o","n","s",".","p","o","l","i","c","y","N","a","m","e">>
      [] s = "attribute.labels.policyIds" ->
           <<"a","t","t","r","i","b","u","t","e",".","l","a","b","e","l","s",".","p","o","l","i","c","y","I","d","s">>
      [] s = "policy.operator" ->
           <<"p","o","l","i","c","y",".","o","p","e","r","a","t","o","r">>
      [] s = "policy.values" ->
           <<"p","o","l","i","c","y",".","v","a","l","u","e","s">>
      [] s = "channel_id" ->
           <<"c","h","a","n","n","e","l","_","i","d">>
      [] s = "channel_name" ->
           <<"c","h","a","n","n","e","l","_","n","a","m","e">>
      [] s = "channel_type" ->
           <<"c","h","a","n","n","e","l","_","t","y","p","e">>
      [] s = "destination_id" ->
           <<"d","e","s","t","i","n","a","t","i","o","n","_","i","d">>
      [] s = "destination_key" ->
           <<"d","e","s","t","i","n","a","t","i","o","n","_","k","e","y">>
      [] s = "destination_value" ->
           <<"d","e","s","t","i","n","a","t","i","o","n","_","v","a","l","u","e">>
      [] s = "destination_channel_name" ->
           <<"d","e","s","t","i","n","a","t","i","o","n","_","c","h","a","n","n","e","l","_","n","a","m","e">>
      [] s = "destination_channel_type" ->
           <<"d","e","s","t","i","n","a","t","i","o","n","_","c","h","a","n","n","e","l","_","t","y","p","e">>
      [] s = "labels.policyIds" ->
           <<"l","a","b","e","l","s",".","p","o","l","i","c","y","I","d","s">>
      [] s = "accumulations.policyName" ->
           <<"a","c","c","u","m","u","l","a","t","i","o","n","s",".","p","o","l","i","c","y","N","a","m","e">>
      [] s = "email" ->
           <<"e","m","a","i","l">>
      [] s = "url" ->
           <<"u","r","l">>
      [] s = "operator: " ->
           <<"o","p","e","r","a","t","o","r",":"," ">>
      [] s = ", priority: " ->
           <<","," ","p","r","i","o","r","i","t","y",":"," ">>
      [] s = ", threshold: " ->
           <<","," ","t","h","r","e","s","h","o","l","d",":"," ">>
      [] s = ", duration: " ->
           <<","," ","d","u","r","a","t","i","o","n",":"," ">>
      [] s = ", occurrences: " ->
           <<","," ","o","c","c","u","r","r","e","n","c","e","s",":"," ">>
      [] s = "; " ->
           <<";"," ">>
      [] s = ", " ->
           <<","," ">>
      [] s = "None" ->
           <<"N","o","n","e">>

\* a + b on Python strings and lists
Cat(a, b) == a \o b

\* sep.join(parts)
RECURSIVE Join(_, _)
Join(sep, parts) ==
    IF parts = <<>> THEN <<>>
    ELSE IF Len(parts) = 1 THEN parts[1]
    ELSE Cat(Cat(parts[1], sep), Join(sep, Tail(parts)))

\* text[i .. i + Len(sep) - 1] = sep
MatchAt(text, sep, i) ==
    /\ i + Len(sep) - 1 <= Len(text)
    /\ \A j \in 1..Len(sep) : text[i + j - 1] = sep[j]

\* A left-to-right loop over the indices lo..hi, halving the range so that
\* long texts do not nest deeply: Step(st, i) is one iteration.
RECURSIVE FoldRange(_, _, _, _)
FoldRange(Step(_, _), st, lo, hi) ==
    IF lo > hi THEN st
    ELSE IF lo = hi THEN Step(st, lo)
    ELSE LET mid == (lo + hi) \div 2
             left == FoldRange(Step, st, lo, mid)
         IN  \* the test makes the left half be computed before the right
             IF left = left THEN FoldRange(Step, left, mid + 1, hi) ELSE st

\* text.split(sep), sep not empty: scan left to right, cut at each match
\* and go on after it
SplitStep(text, sep, st, i) ==
    IF st.skip > 0 THEN [st EXCEPT !.skip = @ - 1]
    ELSE IF MatchAt(text, sep, i)
         THEN [pieces |-> Append(st.pieces, st.piece), piece |-> <<>>,
               skip |-> Len(sep) - 1]
         ELSE [st EXCEPT !.piece = Append(@, text[i])]

Split(text, sep) ==
    LET end == FoldRange(LAMBDA st, i : SplitStep(text, sep, st, i),
                         [pieces |-> <<>>, piece |-> <<>>, skip |-> 0],
                         1, Len(text))
    IN  Append(end.pieces, end.piece)

\* str(n) for a non-negative int
Digit(d) ==
    CASE d = 0 -> "0" [] d = 1 -> "1" [] d = 2 -> "2" [] d = 3 -> "3"
      [] d = 4 -> "4" [] d = 5 -> "5" [] d = 6 -> "6" [] d = 7 -> "7"
      [] d = 8 -> "8" [] d = 9 -> "9"

RECURSIVE StrInt(_)
StrInt(n) ==
    IF n < 10 THEN <<Digit(n)>>
    ELSE Append(StrInt(n \div 10), Digit(n % 10))

(***************************************************************************)
(* Python values held in row fields: None, a str or a list of str.         *)
(***************************************************************************)
None == [k |-> "none", s |-> <<>>, l |-> <<>>]
Str(t) == [k |-> "str", s |-> t, l |-> <<>>]
List(ts) == [k |-> "list", s |-> <<>>, l |-> ts]

\* bool(v) for the values above
Truthy(v) ==
    CASE v.k = "none" -> FALSE
      [] v.k = "str" -> v.s # <<>>
      [] v.k = "list" -> v.l # <<>>

\* repr of a list of str whose elements hold no quote, backslash or
\* control character: ['a', 'b']
ReprList(ts) ==
    Cat(Cat(<<"[">>, Join(TextOf(", "),
                          [i \in 1..Len(ts) |-> Cat(Cat(<<"'">>, ts[i]), <<"'">>)])),
        <<"]">>)

(***************************************************************************)
(* Paginated fetch loops.                                                  *)
(***************************************************************************)
Range(f) == {f[i] : i \in DOMAIN f}

\* The cursor the server hands out with its page i.
Token(i) == [j \in 1..i |-> "k"]

\* The page the server answers a request with: the first page for the
\* empty (or null) cursor, page i + 1 for the cursor handed out with page i.
PageIndex(c) == IF c.k = "str" THEN Len(c.s) + 1 ELSE 1

\* (a loop that ends on "" only)
NotCursorEmptyOnly(c) == c.k = "str" /\ c.s = <<>>

\* `if not cursor`: None and "" both end the loop
NotCursor(c) == ~Truthy(c)

\* acc.extend(entities)
Extend(acc, entities) == acc \o entities

\* One iteration of a `while True` fetch loop: request the page at the
\* current cursor, extend the accumulator, take over nextCursor.
\* The result is <<accumulator, cursor, request record, loop ended>>.
FetchStep(kind, acc) ==
    LET page == srv[kind][PageIndex(cursor)]
    IN  [acc |-> Extend(acc, page.entities),
         cursor |-> page.nextCursor,
         request |-> [kind |-> kind, cursor |-> cursor, ok |-> TRUE,
                      next |-> page.nextCursor],
         break |-> NotCursor(page.nextCursor)]

\* The server holds a page for the cursor of the next request.
Answers(kind) == PageIndex(cursor) <= Len(srv[kind])

(***************************************************************************)
(* Stage A: policies x NRQL conditions.                                    *)
(***************************************************************************)
\* Index of the last element of keys equal to k: a dict comprehension
\* keeps the last value written for a key.
LastWith(keys, k) ==
    CHOOSE i \in DOMAIN keys :
        /\ keys[i] = k
        /\ \A j \in DOMAIN keys : keys[j] = k => j <= i

\* {policy["id"]: policy for policy in policies}
policy_dict(ps) ==
    LET keys == [i \in DOMAIN ps |-> ps[i].id]
    IN  [k \in Range(keys) |-> ps[LastWith(keys, k)]]

\* the f-string of one term
FormatTerm(term) ==
    TextOf("operator: ") \o term.operator
        \o TextOf(", priority: ") \o term.priority
        \o TextOf(", threshold: ") \o StrInt(term.threshold)
        \o TextOf(", duration: ") \o StrInt(term.thresholdDuration)
        \o TextOf(", occurrences: ") \o term.thresholdOccurrences

\* (the terms joined with ", ")
TermsTextComma(terms) ==
    Join(TextOf(", "), [i \in DOMAIN terms |-> FormatTerm(terms[i])])

\* "; ".join([... for term in condition["terms"]])
TermsText(terms) ==
    Join(TextOf("; "), [i \in DOMAIN terms |-> FormatTerm(terms[i])])

JoinedPolicyCondition(policy, condition) ==
    [alert_policy_name |-> Str(policy.name),
     alert_policy_id |-> Str(policy.id),
     nrql_condition_id |-> Str(condition.id),
     alert_condition_name |-> Str(condition.name),
     nrql_query |-> Str(condition.query),
     nrql_condition |-> Str(TermsText(condition.terms))]

\* for condition in nrql_conditions: ... mapped_data.append(...)
RECURSIVE MapConditions(_, _, _)
MapConditions(dict, conds, out) ==
    IF conds = <<>> THEN out
    ELSE LET condition == Head(conds)
             policy_id == condition.policyId
         IN  MapConditions(dict, Tail(conds),
                 IF policy_id \in DOMAIN dict
                 THEN Append(out, JoinedPolicyCondition(dict[policy_id], condition))
                 ELSE out)

map_policies_to_conditions(ps, conds) ==
    MapConditions(policy_dict(ps), conds, <<>>)

(***************************************************************************)
(* Stage B: workflows x Stage A rows, through the predicates.              *)
(***************************************************************************)
WorkflowAlertFields ==
    <<"workflow_name", "workflow_id", "destination_channel_ids",
      "alert_policy_name", "alert_policy_id", "nrql_condition_id",
      "alert_condition_name", "nrql_query", "nrql_condition",
      "attribute.accumulations.policyName", "attribute.labels.policyIds",
      "policy.operator", "policy.values">>

\* (a mapping that keeps the first row of a policy id)
FirstWith(keys, k) ==
    CHOOSE i \in DOMAIN keys :
        /\ keys[i] = k
        /\ \A j \in DOMAIN keys : keys[j] = k => j >= i

alert_policy_dictFirst(rows) ==
    LET keys == [i \in DOMAIN rows |-> rows[i].alert_policy_id.s]
    IN  [k \in Range(keys) |-> rows[FirstWith(keys, k)]]

\* {policy["alert_policy_id"]: policy for policy in alert_policies}
alert_policy_dict(rows) ==
    LET keys == [i \in DOMAIN rows |-> rows[i].alert_policy_id.s]
    IN  [k \in Range(keys) |-> rows[LastWith(keys, k)]]

\* [config["channelId"] for config in workflow["destinationConfigurations"]]
DestinationChannelIds(workflow) ==
    [i \in DOMAIN workflow.destinationConfigurations |->
        workflow.destinationConfigurations[i].channelId]

\* the row appended for one matched value of a labels.policyIds predicate
PolicyIdRow(workflow, predicate, policy_id, alert_policy) ==
    [workflow_name |-> Str(workflow.name),
     workflow_id |-> Str(workflow.id),
     destination_channel_ids |->
         Str(Join(TextOf(", "), DestinationChannelIds(workflow))),
     alert_policy_name |-> alert_policy.alert_policy_name,
     alert_policy_id |-> alert_policy.alert_policy_id,
     nrql_condition_id |-> alert_policy.nrql_condition_id,
     alert_condition_name |-> alert_policy.alert_condition_name,
     nrql_query |-> alert_policy.nrql_query,
     nrql_condition |-> alert_policy.nrql_condition]
    @@ ("attribute.accumulations.policyName" :> None)
    @@ ("attribute.labels.policyIds" :> Str(policy_id))
    @@ ("policy.operator" :> Str(predicate.operator))
    @@ ("policy.values" :> List(predicate.values))

\* the row appended for an accumulations.policyName predicate
PolicyNameRow(workflow, predicate) ==
    [workflow_name |-> Str(workflow.name),
     workflow_id |-> Str(workflow.id),
     destination_channel_ids |->
         Str(Join(TextOf(", "), DestinationChannelIds(workflow))),
     alert_policy_name |-> None,
     alert_policy_id |-> None,
     nrql_condition_id |-> None,
     alert_condition_name |-> None,
     nrql_query |-> None,
     nrql_condition |-> None]
    @@ ("attribute.accumulations.policyName" :> List(predicate.values))
    @@ ("attribute.labels.policyIds" :> None)
    @@ ("policy.operator" :> Str(predicate.operator))
    @@ ("policy.values" :> List(predicate.values))

\* for policy_id in predicate["values"]: if policy_id in alert_policy_dict
RECURSIVE MapValues(_, _, _, _, _)
MapValues(dict, workflow, predicate, values, out) ==
    IF values = <<>> THEN out
    ELSE LET policy_id == Head(values)
         IN  MapValues(dict, workflow, predicate, Tail(values),
                 IF policy_id \in DOMAIN dict
                 THEN Append(out, PolicyIdRow(workflow, predicate, policy_id,
                                              dict[policy_id]))
                 ELSE out)

\* (an else in place of the elif)
PredicateRowsElse(dict, workflow, predicate) ==
    IF predicate.attribute = TextOf("labels.policyIds")
    THEN MapValues(dict, workflow, predicate, predicate.values, <<>>)
    ELSE <<PolicyNameRow(workflow, predicate)>>

\* the if / elif on predicate["attribute"]
PredicateRows(dict, workflow, predicate) ==
    IF predicate.attribute = TextOf("labels.policyIds")
    THEN MapValues(dict, workflow, predicate, predicate.values, <<>>)
    ELSE IF predicate.attribute = TextOf("accumulations.policyName")
    THEN <<PolicyNameRow(workflow, predicate)>>
    ELSE <<>>

RECURSIVE MapPredicates(_, _, _, _)
MapPredicates(dict, workflow, predicates, out) ==
    IF predicates = <<>> THEN out
    ELSE MapPredicates(dict, workflow, Tail(predicates),
                       out \o PredicateRows(dict, workflow, Head(predicates)))

\* `"issuesFilter" in workflow and workflow["issuesFilter"]`: the key may be
\* absent, its value null or an empty mapping
HasIssuesFilter(workflow) == workflow.issuesFilter.state = "value"

RECURSIVE MapWorkflows(_, _, _)
MapWorkflows(dict, wfs, out) ==
    IF wfs = <<>> THEN out
    ELSE LET workflow == Head(wfs)
         IN  MapWorkflows(dict, Tail(wfs),
                 IF HasIssuesFilter(workflow)
                 THEN MapPredicates(dict, workflow,
                                    workflow.issuesFilter.predicates, out)
                 ELSE out)

process_workflows(wfs, rows) == MapWorkflows(alert_policy_dict(rows), wfs, <<>>)

(***************************************************************************)
(* Stage C: channels x destinations.                                       *)
(***************************************************************************)
ChannelDestinationFields ==
    <<"channel_id", "channel_name", "channel_type", "destination_id",
      "destination_key", "destination_value">>

\* {destination["id"]: destination for destination in destinations}
destination_dict(dests) ==
    LET keys == [i \in DOMAIN dests |-> dests[i].id]
    IN  [k \in Range(keys) |-> dests[LastWith(keys, k)]]

\* (a filter that keeps "email" only)
IsEmailKey(key) == key = TextOf("email")

\* prop["key"] in ["email", "url"]
IsContactKey(key) == key \in {TextOf("email"), TextOf("url")}

RECURSIVE FilterProperties(_)
FilterProperties(props) ==
    IF props = <<>> THEN <<>>
    ELSE IF IsContactKey(Head(props).key)
         THEN <<Head(props)>> \o FilterProperties(Tail(props))
         ELSE FilterProperties(Tail(props))

ChannelRow(channel, key, value) ==
    [channel_id |-> Str(channel.id),
     channel_name |-> Str(channel.name),
     channel_type |-> Str(channel.type),
     destination_id |-> Str(channel.destinationId),
     destination_key |-> key,
     destination_value |-> value]

\* (a join that drops the channels without destination)
OneChannelRowsInner(dict, channel) ==
    IF channel.destinationId \in DOMAIN dict
    THEN LET filtered_properties ==
                 FilterProperties(dict[channel.destinationId].properties)
         IN  [i \in DOMAIN filtered_properties |->
                 ChannelRow(channel, Str(filtered_properties[i].key),
                            Str(filtered_properties[i].value))]
    ELSE <<>>

\* the rows appended for one channel
OneChannelRows(dict, channel) ==
    LET destination_id == channel.destinationId
    IN  IF destination_id \in DOMAIN dict
        THEN LET filtered_properties ==
                     FilterProperties(dict[destination_id].properties)
             IN  IF filtered_properties # <<>>
                 THEN [i \in DOMAIN filtered_properties |->
                          ChannelRow(channel, Str(filtered_properties[i].key),
                                     Str(filtered_properties[i].value))]
                 ELSE <<ChannelRow(channel, None, None)>>
        ELSE <<ChannelRow(channel, None, None)>>

RECURSIVE MapChannels(_, _, _)
MapChannels(dict, chs, out) ==
    IF chs = <<>> THEN out
    ELSE MapChannels(dict, Tail(chs), out \o OneChannelRows(dict, Head(chs)))

map_channels_to_destinations(chs, dests) ==
    MapChannels(destination_dict(dests), chs, <<>>)

(***************************************************************************)
(* The tabular writer: csv.DictWriter with the default (excel) dialect on  *)
(* a file opened with newline="".                                          *)
(***************************************************************************)
\* what the writer puts down for a field value: "" for None, the text of a
\* str, str(value) of anything else
FieldText(v) ==
    CASE v.k = "none" -> <<>>
      [] v.k = "str" -> v.s
      [] v.k = "list" -> ReprList(v.l)

\* QUOTE_MINIMAL: a field is quoted when it holds the delimiter, the quote
\* character or a character of the line terminator
NeedsQuote(t) == \E i \in DOMAIN t : t[i] \in {",", "\"", "\r", "\n"}

\* doublequote: every quote character of the field is written twice
DoubleQuotes(t) ==
    FoldRange(LAMBDA out, i : IF t[i] = "\"" THEN out \o <<"\"", "\"">>
                              ELSE Append(out, t[i]),
              <<>>, 1, Len(t))

QuoteField(t) ==
    IF NeedsQuote(t) THEN <<"\"">> \o DoubleQuotes(t) \o <<"\"">> ELSE t

\* writer.writerow: fields joined by the delimiter, ended by "\r\n"; a row
\* of one empty field is written as two quote characters
WriteRow(texts) ==
    (IF Len(texts) = 1 /\ texts[1] = <<>>
     THEN <<"\"", "\"">>
     ELSE Join(<<",">>, [i \in DOMAIN texts |-> QuoteField(texts[i])]))
    \o <<"\r", "\n">>

RECURSIVE WriteRows(_, _)
WriteRows(fieldnames, data) ==
    IF data = <<>> THEN <<>>
    ELSE WriteRow([i \in DOMAIN fieldnames |-> FieldText(Head(data)[fieldnames[i]])])
             \o WriteRows(fieldnames, Tail(data))

\* writer.writeheader() then writer.writerows(data)
CsvText(fieldnames, data) ==
    WriteRow([i \in DOMAIN fieldnames |-> TextOf(fieldnames[i])])
        \o WriteRows(fieldnames, data)

NoFile == [exists |-> FALSE, text |-> <<>>]

\* (a writer that takes an empty result set for an empty file)
write_to_csvNoRaise(data, fieldnames) ==
    [raised |-> FALSE,
     file |-> [exists |-> TRUE,
               text |-> IF data = <<>> THEN <<>> ELSE CsvText(fieldnames, data)]]

\* write_to_csv: open() creates or truncates the file, then data[0] is read
\* for the header; with no rows that raises and leaves the file empty
write_to_csv(data, fieldnames) ==
    IF data = <<>>
    THEN [raised |-> TRUE, file |-> [exists |-> TRUE, text |-> <<>>]]
    ELSE [raised |-> FALSE,
          file |-> [exists |-> TRUE, text |-> CsvText(fieldnames, data)]]

(***************************************************************************)
(* Reading back: csv.DictReader on a file opened in text mode without      *)
(* newline="", so the file object translates "\r\n" and "\r" to "\n".      *)
(***************************************************************************)
\* universal newlines translation of open(..., mode="r"): "\r\n" and a lone
\* "\r" both become "\n"
TranslateNewlines(t) ==
    FoldRange(LAMBDA out, i :
                  IF t[i] = "\r" THEN Append(out, "\n")
                  ELSE IF t[i] = "\n" /\ i > 1 /\ t[i - 1] = "\r" THEN out
                  ELSE Append(out, t[i]),
              <<>>, 1, Len(t))

\* what open() hands to the reader
ReadText(t) == TranslateNewlines(t)

\* The reader gets the file line by line and processes the marker EOL after
\* the last character of each line.
ReaderStart == [state |-> "START_RECORD", field |-> <<>>, fields |-> <<>>,
                rows |-> <<>>]

SaveField(st) == [st EXCEPT !.fields = Append(@, st.field), !.field = <<>>]
AddChar(st, c) == [st EXCEPT !.field = Append(@, c)]
IsNewline(c) == c \in {"\n", "\r", "EOL"}
AfterNewline(c) == IF c = "EOL" THEN "START_RECORD" ELSE "EAT_CRNL"

\* parse_process_char of the reader, default dialect, not strict
StartField(st, c) ==
    IF IsNewline(c)
    THEN [SaveField(st) EXCEPT !.state = AfterNewline(c)]
    ELSE IF c = "\"" THEN [st EXCEPT !.state = "IN_QUOTED_FIELD"]
    ELSE IF c = "," THEN SaveField(st)
    ELSE [AddChar(st, c) EXCEPT !.state = "IN_FIELD"]

ProcessChar(st, c) ==
    CASE st.state = "START_RECORD" ->
            IF c = "EOL" THEN st
            ELSE IF c \in {"\n", "\r"} THEN [st EXCEPT !.state = "EAT_CRNL"]
            ELSE StartField([st EXCEPT !.state = "START_FIELD"], c)
      [] st.state = "START_FIELD" -> StartField(st, c)
      [] st.state = "IN_FIELD" ->
            IF IsNewline(c)
            THEN [SaveField(st) EXCEPT !.state = AfterNewline(c)]
            ELSE IF c = ","
            THEN [SaveField(st) EXCEPT !.state = "START_FIELD"]
            ELSE AddChar(st, c)
      [] st.state = "IN_QUOTED_FIELD" ->
            IF c = "EOL" THEN st
            ELSE IF c = "\"" THEN [st EXCEPT !.state = "QUOTE_IN_QUOTED_FIELD"]
            ELSE AddChar(st, c)
      [] st.state = "QUOTE_IN_QUOTED_FIELD" ->
            IF c = "\"" THEN [AddChar(st, c) EXCEPT !.state = "IN_QUOTED_FIELD"]
            ELSE IF c = ","
            THEN [SaveField(st) EXCEPT !.state = "START_FIELD"]
            ELSE IF IsNewline(c)
            THEN [SaveField(st) EXCEPT !.state = AfterNewline(c)]
            ELSE [AddChar(st, c) EXCEPT !.state = "IN_FIELD"]
      [] st.state = "EAT_CRNL" ->
            IF c = "EOL" THEN [st EXCEPT !.state = "START_RECORD"] ELSE st

\* Reader.__next__ ends a record when EOL leaves the parser at START_RECORD
EmitRecord(st) == [st EXCEPT !.rows = Append(@, st.fields), !.fields = <<>>]

\* the character t[i], and EOL after it when it ends a line or the file
ReadChar(t, st, i) ==
    LET afterChar == ProcessChar(st, t[i])
        afterEol == ProcessChar(afterChar, "EOL")
    IN  IF t[i] = "\n" \/ i = Len(t)
        THEN IF afterEol.state = "START_RECORD" THEN EmitRecord(afterEol)
             ELSE afterEol
        ELSE afterChar

\* list(csv.reader(file)); at the end of the file a field left open inside
\* quotes is kept
CsvRows(t) ==
    LET end == FoldRange(LAMBDA st, i : ReadChar(t, st, i), ReaderStart, 1, Len(t))
    IN  IF end.state = "IN_QUOTED_FIELD" \/ end.field # <<>>
        THEN EmitRecord(SaveField(end)).rows
        ELSE end.rows

\* dict(zip(fieldnames, row)), and None for the fields a short row lacks.
\* (Fields beyond the header, kept by DictReader under the key None, are
\* not read by the program and left out.)
DictRow(fieldnames, row) ==
    [k \in Range(fieldnames) |->
        IF LastWith(fieldnames, k) <= Len(row)
        THEN Str(row[LastWith(fieldnames, k)])
        ELSE None]

RECURSIVE DictRows(_, _)
DictRows(fieldnames, rows) ==
    IF rows = <<>> THEN <<>>
    ELSE IF Head(rows) = <<>>
         THEN DictRows(fieldnames, Tail(rows))    \* blank rows are skipped
         ELSE <<DictRow(fieldnames, Head(rows))>> \o DictRows(fieldnames, Tail(rows))

\* list(csv.DictReader(file)): the first row is the header
DictReader(t) ==
    LET rows == CsvRows(ReadText(t))
    IN  IF rows = <<>> THEN <<>> ELSE DictRows(Head(rows), Tail(rows))

(***************************************************************************)
(* Stage D: rows of the workflow file x rows of the channel file.          *)
(***************************************************************************)
WorkflowChannelFields ==
    WorkflowAlertFields \o
    <<"channel_id", "destination_channel_name", "destination_channel_type",
      "destination_id", "destination_key", "destination_value">>

\* row[name] of a row read back from a file
Get(row, name) == row[TextOf(name)]

\* (a mapping that keeps the first row of a channel id)
channel_dictFirst(rows) ==
    LET keys == [i \in DOMAIN rows |-> Get(rows[i], "channel_id")]
    IN  [k \in Range(keys) |-> rows[FirstWith(keys, k)]]

\* {channel["channel_id"]: channel for channel in channels_data}
channel_dict(rows) ==
    LET keys == [i \in DOMAIN rows |-> Get(rows[i], "channel_id")]
    IN  [k \in Range(keys) |-> rows[LastWith(keys, k)]]

\* the thirteen fields copied from the workflow row
WorkflowPart(workflow) ==
    [n \in Range(WorkflowAlertFields) |-> Get(workflow, n)]

FoundChannelRow(workflow, channel) ==
    WorkflowPart(workflow)
    @@ [channel_id |-> Get(channel, "channel_id"),
        destination_channel_name |-> Get(channel, "channel_name"),
        destination_channel_type |-> Get(channel, "channel_type"),
        destination_id |-> Get(channel, "destination_id"),
        destination_key |-> Get(channel, "destination_key"),
        destination_value |-> Get(channel, "destination_value")]

MissingChannelRow(workflow, channel_id) ==
    WorkflowPart(workflow)
    @@ [channel_id |-> channel_id,
        destination_channel_name |-> None,
        destination_channel_type |-> None,
        destination_id |-> None,
        destination_key |-> None,
        destination_value |-> None]

\* workflow["destination_channel_ids"].split(", ")
SplitChannelIds(workflow) ==
    LET pieces == Split(Get(workflow, "destination_channel_ids").s, TextOf(", "))
    IN  [i \in DOMAIN pieces |-> Str(pieces[i])]

\* (a join that keeps the channel ids found only)
OneWorkflowRowsFound(dict, workflow) ==
    LET ids == SelectSeq(SplitChannelIds(workflow), LAMBDA c : c \in DOMAIN dict)
    IN  [i \in DOMAIN ids |-> FoundChannelRow(workflow, dict[ids[i]])]

\* for channel_id in destination_channel_ids: ...
OneWorkflowRows(dict, workflow) ==
    LET ids == SplitChannelIds(workflow)
    IN  [i \in DOMAIN ids |->
            IF ids[i] \in DOMAIN dict
            THEN FoundChannelRow(workflow, dict[ids[i]])
            ELSE MissingChannelRow(workflow, ids[i])]

RECURSIVE MapWorkflowRows(_, _, _)
MapWorkflowRows(dict, wrows, out) ==
    IF wrows = <<>> THEN out
    ELSE MapWorkflowRows(dict, Tail(wrows),
                         out \o OneWorkflowRows(dict, Head(wrows)))

map_workflows_with_channels(wdata, cdata) ==
    MapWorkflowRows(channel_dict(cdata), wdata, <<>>)

(***************************************************************************)
(* What the server may hold.  Every scenario varies one part of the        *)
(* account around a small base account.                                    *)
(***************************************************************************)
SeqsUpTo(S, n) == UNION {[1..m -> S] : m \in 0..n}

EmptyCursor == Str(<<>>)

\* a search whose entities all come on one page
OnePage(entities) == <<[entities |-> entities, nextCursor |-> EmptyCursor]>>

\* the cursors of a search of n pages: the last page reports an empty or a
\* null cursor; an earlier page its own cursor, an empty or a null cursor
CursorSeqs(n) ==
    {cs \in [1..n -> {EmptyCursor, None} \cup {Str(Token(i)) : i \in 1..n}] :
        \A i \in 1..n : Truthy(cs[i]) => (cs[i].s = Token(i) /\ i < n)}

\* the searches of up to MaxPages pages whose entity lists are in lists
PageSeqs(lists) ==
    UNION {{[i \in 1..n |-> [entities |-> es[i], nextCursor |-> cs[i]]] :
                es \in [1..n -> lists], cs \in CursorSeqs(n)} :
           n \in 1..MaxPages}

\* ids
IdP == <<"p">>
IdQ == <<"q">>
IdR == <<"r">>
IdX == <<"x">>
IdY == <<"y">>
IdZ == <<"z">>
IdD == <<"d">>
IdE == <<"e">>

\* names, some with characters the tabular format treats specially
PlainName == <<"n">>
Names == {PlainName, <<"a", ",", " ", "b">>, <<"\"", "q">>, <<"l", "\n", "m">>,
          <<"c", "\r", "d">>}

Policy(id, name) == [id |-> id, name |-> name]
PolicyU == {Policy(IdP, <<"n">>), Policy(IdP, <<"m">>), Policy(IdQ, <<"o">>)}

Term1 == [operator |-> <<"A", "B", "O", "V", "E">>,
          priority |-> <<"C", "R", "I", "T", "I", "C", "A", "L">>,
          threshold |-> 90, thresholdDuration |-> 300,
          thresholdOccurrences |-> <<"A", "L", "L">>]
Term2 == [operator |-> <<"B", "E", "L", "O", "W">>,
          priority |-> <<"W", "A", "R", "N", "I", "N", "G">>,
          threshold |-> 5, thresholdDuration |-> 60,
          thresholdOccurrences |-> <<"A", "L", "L">>]
TermU == {Term1, Term2}

Condition(policyId, id, terms) ==
    [policyId |-> policyId, id |-> id, name |-> <<"m">> \o id,
     query |-> <<"s">> \o id, terms |-> terms]
CondC == Condition(IdP, <<"c">>, <<Term1>>)
CondD == Condition(IdP, <<"d">>, <<Term2>>)
CondQ == Condition(IdQ, <<"f">>, <<>>)
CondR == Condition(IdR, <<"g">>, <<Term1>>)

Predicate(attribute, values) ==
    [attribute |-> attribute, operator |-> <<"I", "N">>, values |-> values]
OtherAttribute == <<"p", "r", "i", "o", "r", "i", "t", "y">>

Filter(state, predicates) == [state |-> state, predicates |-> predicates]

Workflow(id, name, channelIds, filter) ==
    [id |-> id, name |-> name,
     destinationConfigurations |->
         [i \in DOMAIN channelIds |-> [channelId |-> channelIds[i]]],
     issuesFilter |-> filter]

Channel(id, name, destinationId) ==
    [id |-> id, name |-> name, type |-> <<"E">>, destinationId |-> destinationId]

Property(key, value) == [key |-> key, value |-> value]
PropertyU == {Property(TextOf("email"), <<"e">>), Property(TextOf("url"), <<"u">>),
              Property(<<"t">>, <<"s">>)}

Destination(id, properties) == [id |-> id, properties |-> properties]

\* the base account: one policy with one condition, one workflow routing
\* that policy to one channel, whose destination has an email address
BasePolicies == <<Policy(IdP, <<"n">>)>>
BaseConditions == <<CondC>>
BasePredicate == Predicate(TextOf("labels.policyIds"), <<IdP>>)
BaseWorkflow == Workflow(<<"w">>, <<"v">>, <<IdX>>, Filter("value", <<BasePredicate>>))
BaseChannels == <<Channel(IdX, <<"h">>, IdD)>>
BaseDestinations == <<Destination(IdD, <<Property(TextOf("email"), <<"e">>)>>)>>

Server(ps, cs, ws, chs, ds) ==
    [policies |-> ps, conditions |-> cs, workflows |-> ws, channels |-> chs,
     destinations |-> ds]

BaseServer ==
    Server(OnePage(BasePolicies), OnePage(BaseConditions), OnePage(<<BaseWorkflow>>),
           OnePage(BaseChannels), BaseDestinations)

\* paging: one search at a time is spread over pages
PageLists(a, b) == {<<>>, <<a>>, <<a, b>>}

PagingServers ==
    {[BaseServer EXCEPT !.policies = ps] :
        ps \in PageSeqs(PageLists(Policy(IdP, <<"n">>), Policy(IdQ, <<"o">>)))}
    \cup {[BaseServer EXCEPT !.conditions = cs] :
        cs \in PageSeqs(PageLists(CondC, CondD))}
    \cup {[BaseServer EXCEPT !.workflows = ws] :
        ws \in PageSeqs(PageLists(BaseWorkflow,
                   Workflow(<<"u">>, <<"t">>, <<IdY>>, Filter("value", <<BasePredicate>>))))}
    \cup {[BaseServer EXCEPT !.channels = chs] :
        chs \in PageSeqs(PageLists(Channel(IdX, <<"h">>, IdD), Channel(IdY, <<"i">>, IdE)))}

\* policies and conditions
ConditionLists ==
    {<<>>} \cup {<<a>> : a \in {CondC, CondD, CondQ, CondR}}
    \cup {<<a, b>> : a, b \in {CondC, CondD, CondQ, CondR}}
    \cup {<<Condition(pid, <<"c">>, terms)>> \o more :
              pid \in {IdP, IdR}, terms \in SeqsUpTo(TermU, MaxTerms),
              more \in {<<>>, <<CondR>>}}

PolicyServers ==
    {[BaseServer EXCEPT !.policies = OnePage(ps), !.conditions = OnePage(cs)] :
        ps \in SeqsUpTo(PolicyU, 2), cs \in ConditionLists}

\* workflows: issues filters and predicates, over a few Stage A results
PredicateU ==
    {Predicate(TextOf("labels.policyIds"), vs) :
        vs \in SeqsUpTo({IdP, IdQ, IdR}, MaxValues)}
    \cup {Predicate(TextOf("accumulations.policyName"), vs) :
        vs \in {<<>>, <<PlainName>>}}
    \cup {Predicate(OtherAttribute, <<IdP>>)}

SecondPredicates ==
    {BasePredicate, Predicate(TextOf("accumulations.policyName"), <<PlainName>>),
     Predicate(OtherAttribute, <<IdP>>)}

FilterU ==
    {Filter(s, <<>>) : s \in {"absent", "null", "empty", "value"}}
    \cup {Filter("value", <<a>>) : a \in PredicateU}
    \cup {Filter("value", <<a, b>>) : a \in PredicateU, b \in SecondPredicates}

WorkflowLists ==
    {<<>>}
    \cup {<<Workflow(<<"u">>, <<"t">>, <<IdX>>, f)>> : f \in FilterU}
    \cup {<<Workflow(<<"u">>, <<"t">>, <<IdX>>, f), BaseWorkflow>> : f \in FilterU}

WorkflowServers ==
    {[BaseServer EXCEPT !.policies = OnePage(<<Policy(IdP, <<"n">>), Policy(IdQ, <<"o">>)>>),
                        !.conditions = OnePage(cs),
                        !.workflows = OnePage(ws)] :
        cs \in {<<>>, <<CondC>>, <<CondC, CondD>>, <<CondC, CondQ, CondD>>},
        ws \in WorkflowLists}

\* channels and destinations
ChannelU == {Channel(IdX, <<"h">>, IdD), Channel(IdY, <<"i">>, IdD),
             Channel(IdY, <<"j">>, IdE)}

DestinationLists ==
    {<<>>}
    \cup {<<Destination(IdD, props)>> : props \in SeqsUpTo(PropertyU, MaxProps)}
    \cup {<<Destination(IdE, <<>>), Destination(IdD, props)>> :
              props \in SeqsUpTo(PropertyU, MaxProps)}

ChannelServers ==
    {[BaseServer EXCEPT !.channels = OnePage(chs), !.destinations = ds] :
        chs \in SeqsUpTo(ChannelU, 2), ds \in DestinationLists}

\* the final join: destination configurations of the workflows against
\* the channels, and names that need quoting
RoutingServers ==
    {[BaseServer EXCEPT
         !.workflows = OnePage(<<Workflow(<<"u">>, name, cfg, f)>> \o more),
         !.channels = OnePage(chs),
         !.destinations = <<Destination(IdD, props)>>] :
        name \in {<<"t">>},
        cfg \in SeqsUpTo({IdX, IdY, IdZ}, MaxConfigs),
        f \in {Filter("value", <<BasePredicate>>),
               Filter("value", <<Predicate(TextOf("accumulations.policyName"),
                                           <<PlainName>>)>>)},
        more \in {<<>>, <<BaseWorkflow>>},
        chs \in {<<Channel(IdX, <<"h">>, IdD)>>,
                 <<Channel(IdX, <<"h">>, IdD), Channel(IdY, <<"i">>, IdE)>>},
        props \in {<<Property(TextOf("email"), <<"e">>)>>,
                   <<Property(TextOf("email"), <<"e">>),
                     Property(TextOf("url"), <<"u">>)>>}}

TextServers ==
    {[BaseServer EXCEPT
         !.workflows = OnePage(<<Workflow(<<"w">>, wname, <<IdX>>,
                                          Filter("value", <<BasePredicate>>))>>),
         !.channels = OnePage(<<Channel(IdX, cname, IdD)>>)] :
        wname \in Names, cname \in Names}

Servers ==
    PagingServers \cup PolicyServers \cup WorkflowServers \cup ChannelServers
        \cup RoutingServers \cup TextServers

(***************************************************************************)
(* The run of main().                                                      *)
(***************************************************************************)
FileB == "workflows_with_alert_policies.csv"
FileC == "channels_and_destinations.csv"
FileD == "workflows_with_channels.csv"

Init ==
    /\ srv \in Servers
    /\ pc = "policies"
    /\ cursor = EmptyCursor
    /\ requests = <<>>
    /\ policies = <<>>
    /\ nrql_conditions = <<>>
    /\ alert_policies = <<>>
    /\ workflows = <<>>
    /\ processed_data = <<>>
    /\ channels = <<>>
    /\ destinations = <<>>
    /\ channel_rows = <<>>
    /\ files = [f \in {FileB, FileC, FileD} |-> NoFile]
    /\ workflows_data = <<>>
    /\ channels_data = <<>>
    /\ mapped_data = <<>>
    /\ events = <<>>

\* one iteration of a fetch loop; on break the run moves on to `next`,
\* where the next loop, if any, starts from cursor = ""
Loop(kind, acc, next) ==
    /\ pc = kind
    /\ Answers(kind)
    /\ LET step == FetchStep(kind, acc)
       IN  /\ requests' = Append(requests, step.request)
           /\ events' = Append(events, "fetch")
           /\ cursor' = IF step.break THEN EmptyCursor ELSE step.cursor
           /\ pc' = IF step.break THEN next ELSE kind
           /\ policies' = IF kind = "policies" THEN step.acc ELSE policies
           /\ nrql_conditions' = IF kind = "conditions" THEN step.acc
                                 ELSE nrql_conditions
           /\ workflows' = IF kind = "workflows" THEN step.acc ELSE workflows
           /\ channels' = IF kind = "channels" THEN step.acc ELSE channels
    /\ UNCHANGED <<srv, alert_policies, processed_data, destinations,
                   channel_rows, files, workflows_data, channels_data,
                   mapped_data>>

FetchPolicies == Loop("policies", policies, "conditions")
FetchConditions == Loop("conditions", nrql_conditions, "map_a")
FetchWorkflows == Loop("workflows", workflows, "process")
FetchChannels == Loop("channels", channels, "destinations")

\* the last part of get_alert_policies_and_conditions
MapPoliciesToConditions ==
    /\ pc = "map_a"
    /\ alert_policies' = map_policies_to_conditions(policies, nrql_conditions)
    /\ events' = Append(events, "join:A")
    /\ pc' = "workflows"
    /\ UNCHANGED <<srv, cursor, requests, policies, nrql_conditions, workflows,
                   processed_data, channels, destinations, channel_rows, files,
                   workflows_data, channels_data, mapped_data>>

ProcessWorkflows ==
    /\ pc = "process"
    /\ processed_data' = process_workflows(workflows, alert_policies)
    /\ events' = Append(events, "join:B")
    /\ pc' = "write_b"
    /\ UNCHANGED <<srv, cursor, requests, policies, nrql_conditions,
                   alert_policies, workflows, channels, destinations,
                   channel_rows, files, workflows_data, channels_data,
                   mapped_data>>

\* write_to_csv(data, name) inside a generator; `next` follows a success
Write(at, data, fieldnames, name, tag, next) ==
    /\ pc = at
    /\ LET out == write_to_csv(data, fieldnames)
       IN  /\ files' = [files EXCEPT ![name] = out.file]
           /\ events' = Append(events, IF out.raised THEN "fail:" \o tag
                                       ELSE "write:" \o tag)
           /\ pc' = IF out.raised THEN "aborted" ELSE next
    /\ UNCHANGED <<srv, cursor, requests, policies, nrql_conditions,
                   alert_policies, workflows, processed_data, channels,
                   destinations, channel_rows, workflows_data, channels_data,
                   mapped_data>>

WriteWorkflowsWithAlertPolicies ==
    Write("write_b", processed_data, WorkflowAlertFields, FileB, "B", "channels")

\* the single destinations request
FetchDestinations ==
    /\ pc = "destinations"
    /\ destinations' = srv.destinations
    /\ requests' = Append(requests, [kind |-> "destinations", cursor |-> None,
                                     ok |-> TRUE, next |-> None])
    /\ events' = Append(events, "fetch")
    /\ pc' = "map_c"
    /\ UNCHANGED <<srv, cursor, policies, nrql_conditions, alert_policies,
                   workflows, processed_data, channels, channel_rows, files,
                   workflows_data, channels_data, mapped_data>>

MapChannelsToDestinations ==
    /\ pc = "map_c"
    /\ channel_rows' = map_channels_to_destinations(channels, destinations)
    /\ events' = Append(events, "join:C")
    /\ pc' = "write_c"
    /\ UNCHANGED <<srv, cursor, requests, policies, nrql_conditions,
                   alert_policies, workflows, processed_data, channels,
                   destinations, files, workflows_data, channels_data,
                   mapped_data>>

\* (a second generator that returns without writing its file)
WriteChannelsSkipped ==
    /\ pc = "write_c"
    /\ pc' = "load"
    /\ UNCHANGED <<srv, cursor, requests, policies, nrql_conditions,
                   alert_policies, workflows, processed_data, channels,
                   destinations, channel_rows, files, workflows_data,
                   channels_data, mapped_data, events>>

WriteChannelsAndDestinations ==
    Write("write_c", channel_rows, ChannelDestinationFields, FileC, "C", "load")

\* the two `with open(...)` blocks of generate_workflows_with_channels
\* (open() of a file that does not exist raises)
LoadFiles ==
    /\ pc = "load"
    /\ IF files[FileB].exists /\ files[FileC].exists
       THEN /\ workflows_data' = DictReader(files[FileB].text)
            /\ channels_data' = DictReader(files[FileC].text)
            /\ events' = events \o <<"read:B", "read:C">>
            /\ pc' = "map_d"
       ELSE /\ UNCHANGED <<workflows_data, channels_data>>
            /\ events' = Append(events, "fail:read")
            /\ pc' = "aborted"
    /\ UNCHANGED <<srv, cursor, requests, policies, nrql_conditions,
                   alert_policies, workflows, processed_data, channels,
                   destinations, channel_rows, files, mapped_data>>

MapWorkflowsWithChannels ==
    /\ pc = "map_d"
    /\ mapped_data' = map_workflows_with_channels(workflows_data, channels_data)
    /\ events' = Append(events, "join:D")
    /\ pc' = "write_d"
    /\ UNCHANGED <<srv, cursor, requests, policies, nrql_conditions,
                   alert_policies, workflows, processed_data, channels,
                   destinations, channel_rows, files, workflows_data,
                   channels_data>>

WriteWorkflowsWithChannels ==
    Write("write_d", mapped_data, WorkflowChannelFields, FileD, "D", "done")

\* response.raise_for_status() raises in fetch_data: nothing catches it
FetchStates == {"policies", "conditions", "workflows", "channels", "destinations"}

HttpError ==
    /\ pc \in FetchStates
    /\ requests' = Append(requests, [kind |-> pc, cursor |-> cursor,
                                     ok |-> FALSE, next |-> None])
    /\ events' = Append(events, "http_error")
    /\ pc' = "aborted"
    /\ UNCHANGED <<srv, cursor, policies, nrql_conditions, alert_policies,
                   workflows, processed_data, channels, destinations,
                   channel_rows, files, workflows_data, channels_data,
                   mapped_data>>

Next ==
    \/ FetchPolicies
    \/ FetchConditions
    \/ MapPoliciesToConditions
    \/ FetchWorkflows
    \/ ProcessWorkflows
    \/ WriteWorkflowsWithAlertPolicies
    \/ FetchChannels
    \/ FetchDestinations
    \/ MapChannelsToDestinations
    \/ WriteChannelsAndDestinations
    \/ LoadFiles
    \/ MapWorkflowsWithChannels
    \/ WriteWorkflowsWithChannels
    \/ HttpError

Spec == Init /\ [][Next]_vars

(***************************************************************************)
(* Properties.                                                             *)
(***************************************************************************)
Happened(tag) == \E i \in DOMAIN events : events[i] = tag

IndexOf(tag) == CHOOSE i \in DOMAIN events : events[i] = tag

PaginatedKinds == {"policies", "conditions", "workflows", "channels"}

\* the successful requests of one search, in the order made
ReqsOf(kind) == SelectSeq(requests, LAMBDA r : r.kind = kind /\ r.ok)

Accumulator(kind) ==
    CASE kind = "policies" -> policies
      [] kind = "conditions" -> nrql_conditions
      [] kind = "workflows" -> workflows
      [] kind = "channels" -> channels

\* the positions of main() after the loop of a search has been left
AfterLoop(kind) ==
    CASE kind = "policies" ->
            {"conditions", "map_a", "workflows", "process", "write_b", "channels",
             "destinations", "map_c", "write_c", "load", "map_d", "write_d", "done"}
      [] kind = "conditions" ->
            {"map_a", "workflows", "process", "write_b", "channels",
             "destinations", "map_c", "write_c", "load", "map_d", "write_d", "done"}
      [] kind = "workflows" ->
            {"process", "write_b", "channels", "destinations", "map_c",
             "write_c", "load", "map_d", "write_d", "done"}
      [] kind = "channels" ->
            {"destinations", "map_c", "write_c", "load", "map_d", "write_d", "done"}

\* the first page of the server's sequence that reports no cursor
FirstLastPage(kind) ==
    CHOOSE n \in DOMAIN srv[kind] :
        /\ ~Truthy(srv[kind][n].nextCursor)
        /\ \A m \in 1..(n - 1) : Truthy(srv[kind][m].nextCursor)

\* the entities of the first n pages, page after page
RECURSIVE PagesConcat(_, _)
PagesConcat(pages, n) ==
    IF n = 0 THEN <<>> ELSE PagesConcat(pages, n - 1) \o pages[n].entities

\* C1: each paginated loop starts with cursor "", requests every further
\* page with the nextCursor of the page before, makes no request after a
\* page without cursor and does not stop before one; the accumulator is the
\* concatenation of the pages received, in order, duplicates kept.
C1_PaginatedFetch ==
    \A kind \in PaginatedKinds :
        LET reqs == ReqsOf(kind)
            n == Len(reqs)
        IN  /\ n <= Len(srv[kind])
            /\ n >= 1 => reqs[1].cursor = Str(<<>>)
            /\ \A i \in 1..n : reqs[i].next = srv[kind][i].nextCursor
            /\ \A i \in 1..(n - 1) :
                   /\ reqs[i + 1].cursor = srv[kind][i].nextCursor
                   /\ Truthy(srv[kind][i].nextCursor)
            /\ Accumulator(kind) = PagesConcat(srv[kind], n)
            /\ pc \in AfterLoop(kind) => n = FirstLastPage(kind)

\* a loop that took two pages, the second a repeat of the first, over a
\* server holding them, has ended and the run has gone on to its end
C1_Witness ==
    /\ pc = "done"
    /\ \E kind \in PaginatedKinds :
           /\ Len(ReqsOf(kind)) = 2
           /\ Len(Accumulator(kind)) = 2
           /\ Accumulator(kind)[1] = Accumulator(kind)[2]

(***************************************************************************)
(* Stage B.                                                                *)
(***************************************************************************)
\* the policy ids Stage A emitted a row for
KnownPolicyIds == {alert_policies[i].alert_policy_id.s : i \in DOMAIN alert_policies}

IsKnownPolicyId(v) == v \in KnownPolicyIds

\* the predicates of a workflow's issues filter; none when it is absent or empty
PredicatesOf(w) ==
    IF w.issuesFilter.state \in {"absent", "null", "empty"} THEN <<>>
    ELSE w.issuesFilter.predicates

\* every (workflow, predicate) pair, workflow by workflow, in predicate order
RECURSIVE PredicateSlots(_)
PredicateSlots(wfs) ==
    IF wfs = <<>> THEN <<>>
    ELSE [i \in DOMAIN PredicatesOf(Head(wfs)) |->
             [w |-> Head(wfs), p |-> PredicatesOf(Head(wfs))[i]]]
         \o PredicateSlots(Tail(wfs))

\* the rows the claim gives a predicate
RowsDue(p) ==
    IF p.attribute = TextOf("labels.policyIds")
    THEN Len(SelectSeq(p.values, IsKnownPolicyId))
    ELSE IF p.attribute = TextOf("accumulations.policyName") THEN 1
    ELSE 0

\* the rows due to the first k predicate slots
RECURSIVE RowsDueUpTo(_, _)
RowsDueUpTo(slots, k) ==
    IF k = 0 THEN 0 ELSE RowsDueUpTo(slots, k - 1) + RowsDue(slots[k].p)

PolicyConditionFields ==
    {"alert_policy_name", "alert_policy_id", "nrql_condition_id",
     "alert_condition_name", "nrql_query", "nrql_condition"}

\* C2: Stage B emits, workflow by workflow and predicate by predicate, one
\* row per known value of a labels.policyIds predicate (in values order, the
\* value in attribute.labels.policyIds), exactly one row with six null
\* fields and the values kept for an accumulations.policyName predicate, and
\* nothing for any other predicate or for a workflow without issues filter.
C2_StageBRows ==
    Happened("join:B") =>
        LET slots == PredicateSlots(workflows)
        IN  /\ Len(processed_data) = RowsDueUpTo(slots, Len(slots))
            /\ \A k \in DOMAIN slots :
                   LET p == slots[k].p
                       from == RowsDueUpTo(slots, k - 1)
                       rows == SubSeq(processed_data, from + 1, from + RowsDue(p))
                       known == SelectSeq(p.values, IsKnownPolicyId)
                   IN  /\ \A i \in DOMAIN rows :
                              /\ rows[i].workflow_id = Str(slots[k].w.id)
                              /\ rows[i]["policy.values"] = List(p.values)
                       /\ p.attribute = TextOf("labels.policyIds") =>
                              /\ Len(rows) = Len(known)
                              /\ \A i \in DOMAIN rows :
                                     rows[i]["attribute.labels.policyIds"] = Str(known[i])
                       /\ p.attribute = TextOf("accumulations.policyName") =>
                              /\ Len(rows) = 1
                              /\ \A f \in PolicyConditionFields : rows[1][f] = None
                              /\ rows[1]["attribute.accumulations.policyName"]
                                     = List(p.values)

\* a workflow whose first predicate lists a known and an unknown policy id
\* and whose second is an accumulations.policyName predicate: two rows
C2_Witness ==
    /\ pc = "write_b"
    /\ Len(workflows) = 1
    /\ PredicatesOf(workflows[1]) =
           <<Predicate(TextOf("labels.policyIds"), <<IdP, IdR>>),
             Predicate(TextOf("accumulations.policyName"), <<PlainName>>)>>
    /\ IdP \in KnownPolicyIds /\ IdR \notin KnownPolicyIds
    /\ Len(processed_data) = 2

(***************************************************************************)
(* Stage C.                                                                *)
(***************************************************************************)
\* the destinations a channel's destinationId matches
MatchesOf(channel) ==
    SelectSeq(destinations, LAMBDA d : d.id = channel.destinationId)

\* the email and url properties of a destination, in property order
ContactProperties(d) ==
    SelectSeq(d.properties,
              LAMBDA prop : prop.key = TextOf("email") \/ prop.key = TextOf("url"))

\* the rows the claim gives a channel
ChannelRowsDue(channel) ==
    IF MatchesOf(channel) = <<>> THEN 1
    ELSE IF ContactProperties(MatchesOf(channel)[1]) = <<>> THEN 1
    ELSE Len(ContactProperties(MatchesOf(channel)[1]))

RECURSIVE ChannelRowsDueUpTo(_)
ChannelRowsDueUpTo(k) ==
    IF k = 0 THEN 0 ELSE ChannelRowsDueUpTo(k - 1) + ChannelRowsDue(channels[k])

\* C3: Stage C emits, channel by channel, one row per email or url property
\* of the matched destination in property order, and one row with null key
\* and value (destination_id still the channel's) when there is no such
\* property or no matching destination; every channel yields a row.
C3_StageCRows ==
    Happened("join:C") =>
        /\ Len(channel_rows) = ChannelRowsDueUpTo(Len(channels))
        /\ \A k \in DOMAIN channels :
               LET channel == channels[k]
                   from == ChannelRowsDueUpTo(k - 1)
                   rows == SubSeq(channel_rows, from + 1,
                                  from + ChannelRowsDue(channel))
                   props == IF MatchesOf(channel) = <<>> THEN <<>>
                            ELSE ContactProperties(MatchesOf(channel)[1])
               IN  /\ Len(rows) >= 1
                   /\ \A i \in DOMAIN rows :
                          /\ rows[i].channel_id = Str(channel.id)
                          /\ rows[i].destination_id = Str(channel.destinationId)
                   /\ props # <<>> =>
                          /\ Len(rows) = Len(props)
                          /\ \A i \in DOMAIN rows :
                                 /\ rows[i].destination_key = Str(props[i].key)
                                 /\ rows[i].destination_value = Str(props[i].value)
                   /\ props = <<>> =>
                          /\ Len(rows) = 1
                          /\ rows[1].destination_key = None
                          /\ rows[1].destination_value = None

\* a channel whose destination has an email and another property, then a
\* channel whose destination is unknown: one row each
C3_Witness ==
    /\ pc = "write_c"
    /\ Len(channels) = 2
    /\ MatchesOf(channels[1]) # <<>>
    /\ Len(MatchesOf(channels[1])[1].properties) = 2
    /\ Len(ContactProperties(MatchesOf(channels[1])[1])) = 1
    /\ MatchesOf(channels[2]) = <<>>
    /\ Len(channel_rows) = 2

(***************************************************************************)
(* Stage A.                                                                *)
(***************************************************************************)
FetchedPolicyIds == {policies[i].id : i \in DOMAIN policies}

HasPolicy(condition) == condition.policyId \in FetchedPolicyIds

\* the conditions whose policyId is a fetched policy's id, in order
MatchedConditions == SelectSeq(nrql_conditions, HasPolicy)

\* "operator: X, priority: Y, threshold: Z, duration: D, occurrences: O"
\* as its five parts joined with ", "
Label(name) == SubSeq(TextOf(name), 3, Len(TextOf(name)))

TermDescription(term) ==
    Join(TextOf(", "),
         <<TextOf("operator: ") \o term.operator,
           Label(", priority: ") \o term.priority,
           Label(", threshold: ") \o StrInt(term.threshold),
           Label(", duration: ") \o StrInt(term.thresholdDuration),
           Label(", occurrences: ") \o term.thresholdOccurrences>>)

\* C4: Stage A emits no row for a condition whose policyId is no fetched
\* policy's id and exactly one row, in condition order, for every other
\* condition; the row carries the id and name of a fetched policy with that
\* id, and its nrql_condition is the descriptions of the condition's terms
\* in order joined with "; " (empty when there are no terms).
C4_StageARows ==
    Happened("join:A") =>
        /\ Len(alert_policies) = Len(MatchedConditions)
        /\ \A k \in DOMAIN alert_policies :
               LET row == alert_policies[k]
                   condition == MatchedConditions[k]
               IN  /\ row.nrql_condition_id = Str(condition.id)
                   /\ row.alert_policy_id = Str(condition.policyId)
                   /\ \E i \in DOMAIN policies :
                          /\ policies[i].id = condition.policyId
                          /\ row.alert_policy_name = Str(policies[i].name)
                   /\ condition.terms = <<>> => row.nrql_condition = Str(<<>>)
                   /\ condition.terms # <<>> =>
                          Split(row.nrql_condition.s, TextOf("; "))
                              = [i \in DOMAIN condition.terms |->
                                    TermDescription(condition.terms[i])]

\* a condition with two different terms whose policy was fetched, followed
\* by a condition whose policy was not: one row
C4_Witness ==
    /\ pc = "workflows"
    /\ Len(nrql_conditions) = 2
    /\ HasPolicy(nrql_conditions[1])
    /\ nrql_conditions[1].terms = <<Term1, Term2>>
    /\ ~HasPolicy(nrql_conditions[2])
    /\ Len(alert_policies) = 1

(***************************************************************************)
(* Stage D and the files.                                                  *)
(***************************************************************************)
\* the channel ids of a workflow row read back from its file
PiecesOf(wrow) == Split(Get(wrow, "destination_channel_ids").s, TextOf(", "))

RECURSIVE PiecesUpTo(_)
PiecesUpTo(k) ==
    IF k = 0 THEN 0 ELSE PiecesUpTo(k - 1) + Len(PiecesOf(workflows_data[k]))

\* the rows of the channel file with a given channel id
ChannelHits(id) ==
    {i \in DOMAIN channels_data : Get(channels_data[i], "channel_id") = Str(id)}

\* a Stage D row repeats the thirteen fields of a workflow row
RepeatsWorkflowRow(row, wrow) ==
    \A f \in Range(WorkflowAlertFields) : row[f] = wrow[TextOf(f)]

\* C5: Stage D emits, for every workflow row read back and every channel id
\* got by splitting its destination_channel_ids on ", ", one row that
\* repeats the thirteen workflow fields and has that channel id; it carries
\* the name, type, destination id, key and value of a channel row with that
\* id, or five nulls when there is none.  No workflow row is dropped.
C5_StageDRows ==
    Happened("join:D") =>
        /\ Len(mapped_data) = PiecesUpTo(Len(workflows_data))
        /\ \A k \in DOMAIN workflows_data :
               LET wrow == workflows_data[k]
                   pieces == PiecesOf(wrow)
                   from == PiecesUpTo(k - 1)
               IN  /\ Len(pieces) >= 1
                   /\ \A j \in DOMAIN pieces :
                          LET row == mapped_data[from + j]
                              hits == ChannelHits(pieces[j])
                          IN  /\ RepeatsWorkflowRow(row, wrow)
                              /\ row.channel_id = Str(pieces[j])
                              /\ hits # {} =>
                                     \E i \in hits :
                                         LET c == channels_data[i]
                                         IN  /\ row.destination_channel_name
                                                    = Get(c, "channel_name")
                                             /\ row.destination_channel_type
                                                    = Get(c, "channel_type")
                                             /\ row.destination_id
                                                    = Get(c, "destination_id")
                                             /\ row.destination_key
                                                    = Get(c, "destination_key")
                                             /\ row.destination_value
                                                    = Get(c, "destination_value")
                              /\ hits = {} =>
                                     /\ row.destination_channel_name = None
                                     /\ row.destination_channel_type = None
                                     /\ row.destination_id = None
                                     /\ row.destination_key = None
                                     /\ row.destination_value = None

\* a workflow row with two channel ids, the first in the channel file and
\* the second not
C5_Witness ==
    /\ pc = "write_d"
    /\ \E k \in DOMAIN workflows_data :
           LET pieces == PiecesOf(workflows_data[k])
           IN  /\ Len(pieces) = 2
               /\ ChannelHits(pieces[1]) # {}
               /\ ChannelHits(pieces[2]) = {}

\* every field of the written rows reads back with the text written
ReadsBack(data, fieldnames, rows) ==
    /\ Len(data) = Len(rows)
    /\ \A i \in DOMAIN rows :
           /\ DOMAIN data[i] = {TextOf(f) : f \in Range(fieldnames)}
           /\ \A f \in Range(fieldnames) :
                  data[i][TextOf(f)] = Str(FieldText(rows[i][f]))

\* C6: the rows read back from the two files are the rows written: as
\* many, in the same order, with the same columns, every field with the
\* text that was written.
C6_RoundTrip ==
    Happened("read:C") =>
        /\ ReadsBack(workflows_data, WorkflowAlertFields, processed_data)
        /\ ReadsBack(channels_data, ChannelDestinationFields, channel_rows)

(***************************************************************************)
(* The joins as joins.                                                     *)
(***************************************************************************)
ConditionAppears(c) ==
    \E i \in DOMAIN alert_policies :
        /\ alert_policies[i].nrql_condition_id = Str(c.id)
        /\ alert_policies[i].alert_policy_id = Str(c.policyId)

WorkflowAppears(w) ==
    \E i \in DOMAIN processed_data : processed_data[i].workflow_id = Str(w.id)

ChannelAppears(c) ==
    \E i \in DOMAIN channel_rows : channel_rows[i].channel_id = Str(c.id)

WorkflowRowAppears(wrow) ==
    \E i \in DOMAIN mapped_data : RepeatsWorkflowRow(mapped_data[i], wrow)

IsJoinAttribute(a) ==
    a \in {TextOf("labels.policyIds"), TextOf("accumulations.policyName")}

\* a workflow all of whose predicates have another attribute
OnlyOtherPredicates(w) ==
    /\ PredicatesOf(w) # <<>>
    /\ \A i \in DOMAIN PredicatesOf(w) : ~IsJoinAttribute(PredicatesOf(w)[i].attribute)

\* a predicate that yields a row
YieldsRow(p) ==
    \/ p.attribute = TextOf("accumulations.policyName")
    \/ /\ p.attribute = TextOf("labels.policyIds")
       /\ \E i \in DOMAIN p.values : IsKnownPolicyId(p.values[i])

\* C7 as stated: every left-side entity of every stage appears in a row of
\* its stage, but for the predicates of another attribute.
C7_AllLeftOuter ==
    /\ Happened("join:A") =>
           \A i \in DOMAIN nrql_conditions : ConditionAppears(nrql_conditions[i])
    /\ Happened("join:B") =>
           \A i \in DOMAIN workflows :
               ~OnlyOtherPredicates(workflows[i]) => WorkflowAppears(workflows[i])
    /\ Happened("join:C") =>
           \A i \in DOMAIN channels : ChannelAppears(channels[i])
    /\ Happened("join:D") =>
           \A i \in DOMAIN workflows_data : WorkflowRowAppears(workflows_data[i])

\* C7 amended: Stages C and D keep every left-side entity; Stage A keeps a
\* condition exactly when its policy was fetched; Stage B keeps a workflow
\* exactly when its issues filter has a predicate that yields a row.
C7_JoinKinds ==
    /\ Happened("join:A") =>
           \A i \in DOMAIN nrql_conditions :
               ConditionAppears(nrql_conditions[i]) <=> HasPolicy(nrql_conditions[i])
    /\ Happened("join:B") =>
           \A i \in DOMAIN workflows :
               WorkflowAppears(workflows[i]) <=>
                   \E j \in DOMAIN PredicatesOf(workflows[i]) :
                       YieldsRow(PredicatesOf(workflows[i])[j])
    /\ Happened("join:C") =>
           \A i \in DOMAIN channels : ChannelAppears(channels[i])
    /\ Happened("join:D") =>
           \A i \in DOMAIN workflows_data : WorkflowRowAppears(workflows_data[i])

\* a run through all four joins in which Stage A dropped a condition
C7_Witness ==
    /\ Happened("join:D")
    /\ \E i \in DOMAIN nrql_conditions : ~HasPolicy(nrql_conditions[i])
    /\ \A i \in DOMAIN channels : ChannelAppears(channels[i])

(***************************************************************************)
(* The run as a whole.                                                     *)
(***************************************************************************)
IsFailure(e) == e \in {"http_error", "fail:B", "fail:C", "fail:D", "fail:read"}

\* In every state: a failure is the last event and the last request, an
\* aborted run has not written the final file, a file was written only
\* from a result set with rows, a fetch loop can go on, and a run that is
\* done has gone through every stage and written its three files.
C8_Invariant ==
    /\ \A i \in DOMAIN events :
           IsFailure(events[i]) => i = Len(events) /\ pc = "aborted"
    /\ \A i \in DOMAIN requests : ~requests[i].ok => i = Len(requests)
    /\ pc = "aborted" =>
           /\ events # <<>> /\ IsFailure(events[Len(events)])
           /\ ~Happened("write:D")
           /\ ~files[FileD].exists
    /\ Happened("write:B") => processed_data # <<>>
    /\ Happened("write:C") => channel_rows # <<>>
    /\ Happened("write:D") => mapped_data # <<>>
    /\ pc \in PaginatedKinds => Answers(pc)
    /\ pc = "done" =>
           /\ \A tag \in {"join:A", "join:B", "write:B", "join:C", "write:C",
                          "read:B", "read:C", "join:D", "write:D"} : Happened(tag)
           /\ \A f \in {FileB, FileC, FileD} :
                  files[f].exists /\ files[f].text # <<>>

\* C8: the first failure (an HTTP error of a fetch, a write of an empty
\* result set) is the last step of the run: nothing is retried, no later
\* stage runs, the final file is not written, and no step leaves an
\* aborted (or a completed) run; a run without failure goes through every
\* stage and writes its three files.
C8_AbortIsFinal ==
    /\ []C8_Invariant
    /\ [][pc \notin {"aborted", "done"}]_vars

\* the destinations request fails after the first file was written
C8_Witness ==
    /\ pc = "aborted"
    /\ events[Len(events)] = "http_error"
    /\ requests[Len(requests)].kind = "destinations"
    /\ Happened("write:B")
    /\ ~files[FileC].exists /\ ~files[FileD].exists

WriteEvents ==
    SelectSeq(events, LAMBDA e : e \in {"write:A", "write:B", "write:C", "write:D"})

\* C9 as stated: a completed run has written four files, Stage A's first,
\* then Stage C's, Stage B's and Stage D's.
C9_FourFilesInOrder ==
    pc = "done" => WriteEvents = <<"write:A", "write:C", "write:B", "write:D">>

\* C9 amended: a completed run has written three files, Stage B's, then
\* Stage C's, then Stage D's, and none for Stage A; the final stage starts,
\* and reads the first two, only after both were written whole in this run.
C9_ThreeFilesInOrder ==
    /\ pc = "done" => WriteEvents = <<"write:B", "write:C", "write:D">>
    /\ pc \in {"load", "map_d", "write_d", "done"} =>
           /\ Happened("write:B") /\ Happened("write:C")
           /\ files[FileB] = [exists |-> TRUE,
                              text |-> CsvText(WorkflowAlertFields, processed_data)]
           /\ files[FileC] = [exists |-> TRUE,
                              text |-> CsvText(ChannelDestinationFields, channel_rows)]
    /\ Happened("read:B") =>
           /\ IndexOf("write:B") < IndexOf("write:C")
           /\ IndexOf("write:C") < IndexOf("read:B")
           /\ IndexOf("read:B") < IndexOf("read:C")
           /\ workflows_data = DictReader(files[FileB].text)
           /\ channels_data = DictReader(files[FileC].text)
    /\ Happened("write:D") =>
           /\ IndexOf("read:C") < IndexOf("write:D")
           /\ files[FileD].text = CsvText(WorkflowChannelFields, mapped_data)

\* a completed run over more than one workflow row and channel row
C9_Witness ==
    /\ pc = "done"
    /\ Len(processed_data) >= 2
    /\ Len(channel_rows) >= 2
    /\ files[FileD].exists

(***************************************************************************)
(* Stage B's lookup.                                                       *)
(***************************************************************************)
\* the last Stage A row of a policy id
LastRowOf(v) ==
    alert_policies[CHOOSE i \in DOMAIN alert_policies :
                       /\ alert_policies[i].alert_policy_id = Str(v)
                       /\ \A j \in DOMAIN alert_policies :
                              alert_policies[j].alert_policy_id = Str(v) => j <= i]

ConditionFields ==
    {"nrql_condition_id", "alert_condition_name", "nrql_query", "nrql_condition"}

\* C10: a Stage B row for a policy id carries the condition id, condition
\* name, query and term string of the last Stage A row of that policy, one
\* row per matching value; the policy's other conditions are in no row.
C10_LastConditionWins ==
    Happened("join:B") =>
        /\ Len(processed_data)
               = RowsDueUpTo(PredicateSlots(workflows), Len(PredicateSlots(workflows)))
        /\ \A i \in DOMAIN processed_data :
               LET row == processed_data[i]
               IN  row["attribute.labels.policyIds"] # None =>
                       \A f \in ConditionFields :
                           row[f] = LastRowOf(row["attribute.labels.policyIds"].s)[f]
        /\ \A k \in DOMAIN alert_policies :
               LET a == alert_policies[k]
               IN  a.nrql_condition_id # LastRowOf(a.alert_policy_id.s).nrql_condition_id
                       => \A i \in DOMAIN processed_data :
                              processed_data[i].nrql_condition_id # a.nrql_condition_id

\* Stage A emitted two rows with different conditions for a policy that a
\* workflow predicate names
C10_Witness ==
    /\ Happened("join:B")
    /\ \E j, k \in DOMAIN alert_policies :
           /\ j < k
           /\ alert_policies[j].alert_policy_id = alert_policies[k].alert_policy_id
           /\ alert_policies[j].nrql_condition_id # alert_policies[k].nrql_condition_id
           /\ \E i \in DOMAIN processed_data :
                  processed_data[i]["attribute.labels.policyIds"]
                      = alert_policies[k].alert_policy_id


(***************************************************************************)
(* The number of Stage D rows.                                             *)
(***************************************************************************)
\* the last row of the channel file with a given channel id
LastHit(id) ==
    CHOOSE i \in ChannelHits(id) : \A j \in ChannelHits(id) : j <= i

\* the rows of the workflow file that come from a workflow without
\* destination configurations
RowsWithoutConfigs ==
    {k \in DOMAIN workflows_data :
        \E i \in DOMAIN workflows :
            /\ workflows[i].destinationConfigurations = <<>>
            /\ Get(workflows_data[k], "workflow_id") = Str(workflows[i].id)}

\* C11: Stage D emits as many rows as the workflow rows have pieces of
\* destination_channel_ids split on ", ", whatever the channel file holds:
\* a channel id with several rows in the channel file gives one row per
\* piece, with the name, type, destination id, key and value of the last
\* of those rows in file order, and a workflow row of a workflow without
\* destination configurations gives exactly one row, with the empty text
\* as channel_id and five null channel and destination fields.
C11_StageDRowCount ==
    Happened("join:D") =>
        /\ Len(mapped_data) = PiecesUpTo(Len(workflows_data))
        /\ \A k \in DOMAIN workflows_data :
               LET pieces == PiecesOf(workflows_data[k])
                   from == PiecesUpTo(k - 1)
               IN  \A j \in DOMAIN pieces :
                          ChannelHits(pieces[j]) # {} =>
                              LET row == mapped_data[from + j]
                                  c == channels_data[LastHit(pieces[j])]
                              IN  /\ row.channel_id = Str(pieces[j])
                                  /\ row.destination_channel_name
                                         = Get(c, "channel_name")
                                  /\ row.destination_channel_type
                                         = Get(c, "channel_type")
                                  /\ row.destination_id = Get(c, "destination_id")
                                  /\ row.destination_key = Get(c, "destination_key")
                                  /\ row.destination_value
                                         = Get(c, "destination_value")
        /\ \A k \in RowsWithoutConfigs :
               LET row == mapped_data[PiecesUpTo(k - 1) + 1]
               IN  /\ Get(workflows_data[k], "destination_channel_ids") = Str(<<>>)
                   /\ PiecesOf(workflows_data[k]) = <<<<>>>>
                   /\ RepeatsWorkflowRow(row, workflows_data[k])
                   /\ row.channel_id = Str(<<>>)
                   /\ row.destination_channel_name = None
                   /\ row.destination_channel_type = None
                   /\ row.destination_id = None
                   /\ row.destination_key = None
                   /\ row.destination_value = None

\* one workflow row without channel ids, and another whose channel has an
\* email row and a url row in the channel file
C11_Witness ==
    /\ pc = "write_d"
    /\ RowsWithoutConfigs # {}
    /\ \E k \in DOMAIN workflows_data :
           \E j \in DOMAIN PiecesOf(workflows_data[k]) :
               LET hits == ChannelHits(PiecesOf(workflows_data[k])[j])
               IN  \E a, b \in hits :
                       /\ a < b
                       /\ Get(channels_data[a], "destination_key")
                              # Get(channels_data[b], "destination_key")
====
